---------------------------- MODULE Spec2Model ----------------------------
(***************************************************************************)
(* A model of the blog content pipeline: the migration script              *)
(* (src/migrate.mjs: legacy HTML -> one Markdown document per post and     *)
(* language) and the build script (src/unnamed/part_000: documents +       *)
(* templates -> one HTML page per language).                               *)
(*                                                                         *)
(* Text.  A JavaScript string is a sequence of atoms.  An atom is a        *)
(* one-character string ("a", " ", "&", "5") or an indivisible word        *)
(* ("March", "amp", "nbsp") that the inputs never spell out character by   *)
(* character, so two sequences are equal exactly when the strings they     *)
(* stand for are equal.  Operators that count characters (slugify,         *)
(* padStart) are only applied to one-character atoms.                      *)
(***************************************************************************)
EXTENDS Integers, Sequences, FiniteSets, TLC

VARIABLES
    input,      \* pure-function runs: the argument
    output,     \* pure-function runs: the result of the first application
    output2,    \* pure-function runs: the result of the second application
    stage,      \* pure-function runs: "in", "once", "twice"
    script,     \* which script the process runs: "migrate", "build", "none"
    html,       \* legacy pages: [LangSet -> [exists, page]]
    content,    \* content/blog/<lang>: [LangSet -> [exists, files]]
    templates,  \* templates/blog-<lang>-{top,bottom}.html: present?
    outPages,   \* pages written by the build: [LangSet -> [written, ...]]
    pc,         \* position of the script
    langIdx,    \* index of the language the loop is at
    enSlugs,    \* migrate: the canonical slug list
    featured,   \* migrate: current language's featured post, if any
    cards,      \* migrate: current language's cards
    cardIdx,    \* migrate: loop counter i of the card loop
    log,        \* console output, one entry per line that names a file
    err         \* the exception that ended the run, or "none"

fnVars == <<input, output, output2, stage>>
scriptVars == <<script, html, content, templates, outPages, pc, langIdx,
                enSlugs, featured, cards, cardIdx, log, err>>
vars == <<input, output, output2, stage, script, html, content, templates,
          outPages, pc, langIdx, enSlugs, featured, cards, cardIdx, log, err>>

Langs == <<"en", "fr", "he">>

----------------------------------------------------------------------------
(* Generic text helpers                                                    *)

RECURSIVE Flatten(_)
Flatten(ss) == IF ss = <<>> THEN <<>> ELSE Head(ss) \o Flatten(Tail(ss))

\* All sequences over S of length 0..n.
SeqsUpTo(S, n) == UNION {[1..k -> S] : k \in 0..n}

Rep(c, n) == [k \in 1..n |-> c]

WhiteSpace == {" ", "\t", "\n"}

\* String.prototype.trim
RECURSIVE TrimLeft(_)
TrimLeft(s) ==
    IF s # <<>> /\ Head(s) \in WhiteSpace THEN TrimLeft(Tail(s)) ELSE s

RECURSIVE TrimRight(_)
TrimRight(s) ==
    IF s # <<>> /\ s[Len(s)] \in WhiteSpace
    THEN TrimRight(SubSeq(s, 1, Len(s) - 1)) ELSE s

Trim(s) == TrimRight(TrimLeft(s))

IsPrefix(p, s) == Len(p) <= Len(s) /\ SubSeq(s, 1, Len(p)) = p

\* Mutant: the g flag is lost, only the first occurrence is replaced.
RECURSIVE ReplaceAll_FirstOnly(_, _, _)
ReplaceAll_FirstOnly(s, pat, rep) ==
    IF s = <<>> THEN <<>>
    ELSE IF IsPrefix(pat, s)
         THEN rep \o SubSeq(s, Len(pat) + 1, Len(s))
         ELSE <<Head(s)>> \o ReplaceAll_FirstOnly(Tail(s), pat, rep)

\* str.replace(/pat/g, rep) for a literal pattern: leftmost, non-overlapping.
RECURSIVE ReplaceAll(_, _, _)
ReplaceAll(s, pat, rep) ==
    IF s = <<>> THEN <<>>
    ELSE IF IsPrefix(pat, s)
         THEN rep \o ReplaceAll(SubSeq(s, Len(pat) + 1, Len(s)), pat, rep)
         ELSE <<Head(s)>> \o ReplaceAll(Tail(s), pat, rep)

\* Does the literal pattern occur in s?
RECURSIVE Contains(_, _)
Contains(s, pat) ==
    IF Len(s) < Len(pat) THEN FALSE
    ELSE IsPrefix(pat, s) \/ Contains(Tail(s), pat)

----------------------------------------------------------------------------
(* decodeEntities, src/migrate.mjs:11-32                                   *)

Digits == {"0", "1", "2", "3", "4", "5", "6", "7", "8", "9"}

DigitValue == [c \in Digits |->
    CASE c = "0" -> 0 [] c = "1" -> 1 [] c = "2" -> 2 [] c = "3" -> 3
      [] c = "4" -> 4 [] c = "5" -> 5 [] c = "6" -> 6 [] c = "7" -> 7
      [] c = "8" -> 8 [] c = "9" -> 9]

DigitChar == <<"0", "1", "2", "3", "4", "5", "6", "7", "8", "9">>

\* parseInt / Number of a run of decimal digits
RECURSIVE ParseInt(_)
ParseInt(ds) ==
    IF ds = <<>> THEN 0
    ELSE ParseInt(SubSeq(ds, 1, Len(ds) - 1)) * 10 + DigitValue[ds[Len(ds)]]

\* String.fromCharCode: the UTF-16 code unit n mod 2^16.  The ASCII
\* characters that can take part in a reference are themselves; any other
\* code unit is the one atom "U+<n>".
FromCharCode(n) ==
    LET u == n % 65536
    IN  CASE u = 38 -> "&"
          [] u = 35 -> "#"
          [] u = 59 -> ";"
          [] u = 32 -> " "
          [] u = 65 -> "A"
          [] u \in 48..57 -> DigitChar[u - 47]
          [] OTHER -> "U+" \o ToString(u)

\* length of the run of digits at the head of s
RECURSIVE DigitRun(_)
DigitRun(s) ==
    IF s # <<>> /\ Head(s) \in Digits THEN 1 + DigitRun(Tail(s)) ELSE 0

\* .replace(/&#(\d+);/g, (_, n) => String.fromCharCode(parseInt(n)))
RECURSIVE ReplaceNumeric(_)
ReplaceNumeric(s) ==
    IF s = <<>> THEN <<>>
    ELSE LET d == IF IsPrefix(<<"&", "#">>, s)
                  THEN DigitRun(SubSeq(s, 3, Len(s))) ELSE 0
         IN  IF d > 0 /\ Len(s) >= d + 3 /\ s[d + 3] = ";"
             THEN <<FromCharCode(ParseInt(SubSeq(s, 3, d + 2)))>>
                  \o ReplaceNumeric(SubSeq(s, d + 4, Len(s)))
             ELSE <<Head(s)>> \o ReplaceNumeric(Tail(s))

\* The named references in the order the chained .replace calls apply them.
NamedEntities ==
    << <<"mdash", "em-dash">>, <<"rarr", "right-arrow">>, <<"larr", "left-arrow">>,
       <<"amp", "&">>, <<"quot", "\"">>, <<"lt", "<">>, <<"gt", ">">>,
       <<"euml", "e-diaeresis">>, <<"eacute", "e-acute">>,
       <<"egrave", "e-grave">>, <<"agrave", "a-grave">>,
       <<"ccedil", "c-cedilla">>, <<"Eacute", "E-acute">>,
       <<"ucirc", "u-circumflex">>, <<"ocirc", "o-circumflex">>,
       <<"acirc", "a-circumflex">>, <<"icirc", "i-circumflex">>,
       <<"nbsp", " ">> >>

\* the chain from the k-th named reference on
RECURSIVE ReplaceNamedFrom(_, _)
ReplaceNamedFrom(s, k) ==
    IF k > Len(NamedEntities) THEN s
    ELSE ReplaceNamedFrom(
             ReplaceAll(s, <<"&", NamedEntities[k][1], ";">>,
                        <<NamedEntities[k][2]>>),
             k + 1)

decodeEntities(str) == ReplaceNamedFrom(ReplaceNumeric(str), 1)

----------------------------------------------------------------------------
(* slugify, src/migrate.mjs:34-42                                          *)

SlugLimit == 60

LowerOf == [c \in {"A", "B", "C"} |->
              CASE c = "A" -> "a" [] c = "B" -> "b" [] c = "C" -> "c"]

\* String.prototype.toLowerCase on one atom
ToLowerAtom(c) == IF c \in DOMAIN LowerOf THEN LowerOf[c] ELSE c

ToLowerCase(s) == [k \in 1..Len(s) |-> ToLowerAtom(s[k])]

\* \w : [A-Za-z0-9_]
IsWordChar(c) == c \in {"a", "b", "c", "A", "B", "C", "_"} \cup Digits

\* .replace(/[^\w\s-]/g, '')
RECURSIVE StripNonSlug(_)
StripNonSlug(s) ==
    IF s = <<>> THEN <<>>
    ELSE IF IsWordChar(Head(s)) \/ Head(s) \in WhiteSpace \/ Head(s) = "-"
         THEN <<Head(s)>> \o StripNonSlug(Tail(s))
         ELSE StripNonSlug(Tail(s))

\* .replace(/X+/g, '-') for a class X of characters: each maximal run -> "-"
RECURSIVE RunsToHyphen(_, _)
RunsToHyphen(s, X) ==
    IF s = <<>> THEN <<>>
    ELSE IF Head(s) \in X
         THEN IF Len(s) > 1 /\ s[2] \in X
              THEN RunsToHyphen(Tail(s), X)
              ELSE <<"-">> \o RunsToHyphen(Tail(s), X)
         ELSE <<Head(s)>> \o RunsToHyphen(Tail(s), X)

\* .replace(/^-|-$/g, ''): one leading and one trailing hyphen
TrimHyphen(s) ==
    LET a == IF s # <<>> /\ Head(s) = "-" THEN Tail(s) ELSE s
    IN  IF a # <<>> /\ a[Len(a)] = "-" THEN SubSeq(a, 1, Len(a) - 1) ELSE a

\* .substring(0, n)
Substring0(s, n) == SubSeq(s, 1, IF Len(s) < n THEN Len(s) ELSE n)

slugify(title) ==
    Substring0(
        TrimHyphen(
            RunsToHyphen(
                RunsToHyphen(StripNonSlug(ToLowerCase(title)), WhiteSpace),
                {"-"})),
        SlugLimit)

----------------------------------------------------------------------------
(* Date parsing, src/migrate.mjs:44-95                                     *)
(* Month names are word atoms.  The Hebrew names are written in Latin      *)
(* transliteration: "yanuar" stands for the Hebrew spelling of January in  *)
(* heMonths, and so on.                                                    *)

M2(a, b) == <<a, b>>

enMonths == [m \in {"january", "february", "march", "april", "may", "june",
                    "july", "august", "september", "october", "november",
                    "december"} |->
    CASE m = "january" -> M2("0", "1") [] m = "february" -> M2("0", "2")
      [] m = "march" -> M2("0", "3") [] m = "april" -> M2("0", "4")
      [] m = "may" -> M2("0", "5") [] m = "june" -> M2("0", "6")
      [] m = "july" -> M2("0", "7") [] m = "august" -> M2("0", "8")
      [] m = "september" -> M2("0", "9") [] m = "october" -> M2("1", "0")
      [] m = "november" -> M2("1", "1") [] m = "december" -> M2("1", "2")]

frMonths == [m \in {"janvier", "fevrier", "mars", "avril", "mai", "juin",
                    "juillet", "aout", "septembre", "octobre", "novembre",
                    "decembre"} |->
    CASE m = "janvier" -> M2("0", "1") [] m = "fevrier" -> M2("0", "2")
      [] m = "mars" -> M2("0", "3") [] m = "avril" -> M2("0", "4")
      [] m = "mai" -> M2("0", "5") [] m = "juin" -> M2("0", "6")
      [] m = "juillet" -> M2("0", "7") [] m = "aout" -> M2("0", "8")
      [] m = "septembre" -> M2("0", "9") [] m = "octobre" -> M2("1", "0")
      [] m = "novembre" -> M2("1", "1") [] m = "decembre" -> M2("1", "2")]

heMonths == [m \in {"yanuar", "februar", "merts", "april-he", "mai-he",
                    "yuni", "yuli", "ogust", "september-he", "oktober",
                    "november-he", "detsember"} |->
    CASE m = "yanuar" -> M2("0", "1") [] m = "februar" -> M2("0", "2")
      [] m = "merts" -> M2("0", "3") [] m = "april-he" -> M2("0", "4")
      [] m = "mai-he" -> M2("0", "5") [] m = "yuni" -> M2("0", "6")
      [] m = "yuli" -> M2("0", "7") [] m = "ogust" -> M2("0", "8")
      [] m = "september-he" -> M2("0", "9") [] m = "oktober" -> M2("1", "0")
      [] m = "november-he" -> M2("1", "1") [] m = "detsember" -> M2("1", "2")]

\* Capitalised spellings of word atoms, for toLowerCase.
WordLower == [w \in {"January", "February", "March", "April", "May", "June",
                     "July", "August", "September", "October", "November",
                     "December", "MARCH", "Mars", "MARS"} |->
    CASE w = "January" -> "january" [] w = "February" -> "february"
      [] w = "March" -> "march" [] w = "April" -> "april"
      [] w = "May" -> "may" [] w = "June" -> "june"
      [] w = "July" -> "july" [] w = "August" -> "august"
      [] w = "September" -> "september" [] w = "October" -> "october"
      [] w = "November" -> "november" [] w = "December" -> "december"
      [] w = "MARCH" -> "march" [] w = "Mars" -> "mars"
      [] w = "MARS" -> "mars"]

\* table[token] || '01', for a token that is no name inherited from
\* Object.prototype (the inputs hold none)
MonthLookup(table, token) ==
    IF Len(token) = 1 /\ token[1] \in DOMAIN table THEN table[token[1]]
    ELSE <<"0", "1">>

\* the multi-character atoms
Words == (DOMAIN enMonths) \cup (DOMAIN frMonths) \cup (DOMAIN heMonths)
         \cup (DOMAIN WordLower)
         \cup {"be-" \o m : m \in DOMAIN heMonths}

\* token.padStart(2, '0')
PadStart2(token) ==
    IF Len(token) >= 2 \/ (Len(token) = 1 /\ token[1] \in Words) THEN token
    ELSE Rep("0", 2 - Len(token)) \o token

\* str.replace(',', ''): the first comma only
RECURSIVE RemoveFirstComma(_)
RemoveFirstComma(s) ==
    IF s = <<>> THEN <<>>
    ELSE IF Head(s) = "," THEN Tail(s)
         ELSE <<Head(s)>> \o RemoveFirstComma(Tail(s))

\* str.split(/\s+/): the parts between maximal runs of whitespace
RECURSIVE SplitRuns(_, _)
SplitRuns(s, part) ==
    IF s = <<>> THEN <<part>>
    ELSE IF Head(s) \in WhiteSpace
         THEN <<part>> \o SplitRuns(TrimLeft(s), <<>>)
         ELSE SplitRuns(Tail(s), Append(part, Head(s)))

\* str.split(' '): the parts between single spaces
RECURSIVE SplitSpace(_, _)
SplitSpace(s, part) ==
    IF s = <<>> THEN <<part>>
    ELSE IF Head(s) = " "
         THEN <<part>> \o SplitSpace(Tail(s), <<>>)
         ELSE SplitSpace(Tail(s), Append(part, Head(s)))

ToLowerWord(c) ==
    IF c \in DOMAIN WordLower THEN WordLower[c] ELSE ToLowerAtom(c)

TokenToLower(t) == [k \in 1..Len(t) |-> ToLowerWord(t[k])]

IsoDate(year, month, day) == year \o <<"-">> \o month \o <<"-">> \o day

parseEnDate(dateStr) ==
    LET parts == SplitRuns(RemoveFirstComma(Trim(dateStr)), <<>>)
    IN  IF Len(parts) = 3
        THEN IsoDate(parts[3], MonthLookup(enMonths, TokenToLower(parts[1])),
                     PadStart2(parts[2]))
        ELSE dateStr

\* Mutant: the French grammar splits on runs of whitespace, as the English.
parseFrDate_SplitRuns(dateStr) ==
    LET decoded == Trim(decodeEntities(dateStr))
        parts == SplitRuns(decoded, <<>>)
    IN  IF Len(parts) = 3
        THEN IsoDate(parts[3], MonthLookup(frMonths, TokenToLower(parts[2])),
                     PadStart2(parts[1]))
        ELSE decoded

parseFrDate(dateStr) ==
    LET decoded == Trim(decodeEntities(dateStr))
        parts == SplitSpace(decoded, <<>>)
    IN  IF Len(parts) = 3
        THEN IsoDate(parts[3], MonthLookup(frMonths, TokenToLower(parts[2])),
                     PadStart2(parts[1]))
        ELSE decoded

parseHeDate(dateStr) ==
    LET decoded == Trim(decodeEntities(dateStr))
        parts == SplitSpace(decoded, <<>>)
    IN  IF Len(parts) = 3
        THEN IsoDate(parts[3], MonthLookup(heMonths, parts[2]),
                     PadStart2(parts[1]))
        ELSE decoded

\* parsePost, lines 113-117: the date of a post from the captured text
PostDate(captured, lang) ==
    LET dateStr == decodeEntities(Trim(captured))
    IN  IF lang = "en" THEN parseEnDate(dateStr)
        ELSE IF lang = "fr" THEN parseFrDate(dateStr)
        ELSE parseHeDate(dateStr)

----------------------------------------------------------------------------
(* Extraction of one post, src/migrate.mjs:97-132                          *)
(* A block is what the five patterns of parsePost capture in a fragment.   *)
(* A capture is NoMatch (the pattern does not match, match() gives null)   *)
(* or Match(x): x is the captured text for dataCat, dateEl, titleEl and    *)
(* excerptEl, and the record [src, alt] for img.                           *)

NoMatch == <<>>
Match(x) == <<x>>

\* m?.[1] || ''
OrEmpty(capture) == IF capture = NoMatch THEN <<>> ELSE capture[1]

parsePost(block, lang, isFeatured) ==
    LET cat == OrEmpty(block.dataCat)
        title == decodeEntities(Trim(OrEmpty(block.titleEl)))
        date == PostDate(OrEmpty(block.dateEl), lang)
        alt == IF block.img = NoMatch THEN <<>> ELSE block.img[1].alt
        slugSource == IF lang = "en" THEN title
                      ELSE decodeEntities(IF alt = <<>> THEN title ELSE alt)
    IN  [ title |-> title,
          slug |-> slugify(slugSource),
          date |-> date,
          category |-> cat,
          excerpt |-> decodeEntities(Trim(OrEmpty(block.excerptEl))),
          image |-> IF block.img = NoMatch THEN <<>> ELSE block.img[1].src,
          image_alt |-> decodeEntities(alt),
          featured |-> isFeatured ]

----------------------------------------------------------------------------
(* Rendering of one post, src/unnamed/part_000:75-170                      *)

escapeHtml(str) ==
    ReplaceAll(
      ReplaceAll(
        ReplaceAll(
          ReplaceAll(str, <<"&">>, <<"&", "amp", ";">>),
          <<"<">>, <<"&", "lt", ";">>),
        <<">">>, <<"&", "gt", ";">>),
      <<"\"">>, <<"&", "quot", ";">>)

\* Number(n).toString(): the decimal digits of a natural number
RECURSIVE NatToDigits(_)
NatToDigits(n) ==
    IF n < 10 THEN <<DigitChar[n + 1]>>
    ELSE NatToDigits(n \div 10) \o <<DigitChar[(n % 10) + 1]>>

\* str.split('-')
RECURSIVE SplitHyphen(_, _)
SplitHyphen(s, part) ==
    IF s = <<>> THEN <<part>>
    ELSE IF Head(s) = "-"
         THEN <<part>> \o SplitHyphen(Tail(s), <<>>)
         ELSE SplitHyphen(Tail(s), Append(part, Head(s)))

\* The long month names Intl.DateTimeFormat gives (CLDR).  In he-IL the
\* day-month-year pattern joins the month to the preposition "be":
\* day, space, "be"+month, space, year.
IntlMonthsEn == <<"January", "February", "March", "April", "May", "June",
                  "July", "August", "September", "October", "November",
                  "December">>
IntlMonthsFr == <<"janvier", "fevrier", "mars", "avril", "mai", "juin",
                  "juillet", "aout", "septembre", "octobre", "novembre",
                  "decembre">>
IntlMonthsHe == <<"be-yanuar", "be-februar", "be-merts", "be-april-he",
                  "be-mai-he", "be-yuni", "be-yuli", "be-ogust",
                  "be-september-he", "be-oktober", "be-november-he",
                  "be-detsember">>

\* formatDate(dateVal, cfg.locale, cfg.dateOptions) for a string dateVal
\* that names a valid calendar date
formatDate(dateVal, lang) ==
    LET ymd == SplitHyphen(dateVal, <<>>)
        y == NatToDigits(ParseInt(ymd[1]))
        m == ParseInt(ymd[2])
        d == NatToDigits(ParseInt(ymd[3]))
    IN  IF lang = "en"
        THEN <<IntlMonthsEn[m], " ">> \o d \o <<",", " ">> \o y
        ELSE IF lang = "fr"
             THEN d \o <<" ", IntlMonthsFr[m], " ">> \o y
             ELSE d \o <<" ", IntlMonthsHe[m], " ">> \o y

cardColors == <<"0D2847", "1a3a5c", "1a4a6e", "1a3550", "1a2844", "1a3048">>
featuredColor == "1a2e4a"

Placeholder(size, color) ==
    <<"https://placehold.co/", size, "/", color, "/", color>>

OrElse(a, b) == IF a = <<>> THEN b ELSE a

\* The emitted fragment, by the text put in each place the extractor reads.
generateFeaturedPost(post, lang) ==
    [ role |-> "featured",
      dataCat |-> post.category,
      imgSrc |-> OrElse(post.image, Placeholder("800x500", featuredColor)),
      imgAlt |-> escapeHtml(OrElse(post.image_alt, post.title)),
      date |-> formatDate(post.date, lang),
      title |-> escapeHtml(post.title),
      excerpt |-> escapeHtml(post.excerpt) ]

generateBlogCard(post, index, lang) ==
    [ role |-> "card",
      rdClass |-> (index % 6) + 1,
      label |-> index + 1,
      dataCat |-> post.category,
      imgSrc |-> OrElse(post.image,
                        Placeholder("600x400",
                                    cardColors[(index % Len(cardColors)) + 1])),
      imgAlt |-> escapeHtml(OrElse(post.image_alt, post.title)),
      date |-> formatDate(post.date, lang),
      title |-> escapeHtml(post.title),
      excerpt |-> escapeHtml(post.excerpt) ]

\* The first match of [^"]+ or [^"]* inside an attribute's quotes
RECURSIVE UpToQuote(_)
UpToQuote(s) ==
    IF s = <<>> \/ Head(s) = "\"" THEN <<>>
    ELSE <<Head(s)>> \o UpToQuote(Tail(s))

\* What the patterns of parsePost (lines 98-110) capture in a fragment
\* emitted by the generators: data-cat="([^"]+)" needs one character;
\* <img src="([^"]*)" alt="([^"]*)" fails when src holds a quote; the date,
\* title and excerpt patterns capture up to the closing tag, which escaped
\* text cannot hold.
MatchFragment(frag) ==
    [ dataCat |-> IF UpToQuote(frag.dataCat) = <<>> THEN NoMatch
                  ELSE Match(UpToQuote(frag.dataCat)),
      img |-> IF UpToQuote(frag.imgSrc) # frag.imgSrc THEN NoMatch
              ELSE Match([src |-> frag.imgSrc,
                          alt |-> UpToQuote(frag.imgAlt)]),
      dateEl |-> Match(frag.date),
      titleEl |-> Match(frag.title),
      excerptEl |-> Match(frag.excerpt) ]

----------------------------------------------------------------------------
(* The migration script, src/migrate.mjs:134-152 and 175-217               *)
(* A legacy page is [featuredBlock, grid]: the capture of the featured     *)
(* block's pattern and the fragments of the grid that hold a blog card     *)
(* (none when the grid's pattern does not match).                          *)

LangSet == {"en", "fr", "he"}

extractFeatured(page, lang) ==
    IF page.featuredBlock = NoMatch THEN NoMatch
    ELSE Match(parsePost(page.featuredBlock[1], lang, TRUE))

extractCards(page, lang) ==
    [k \in 1..Len(page.grid) |-> parsePost(page.grid[k], lang, FALSE)]

\* fs.writeFileSync(<dir>/<name>.md, doc): a file of that name is replaced
\* where it stands in the listing, a new one is added at its end
WriteFile(files, name, doc) ==
    IF \E k \in 1..Len(files) : files[k].name = name
    THEN [k \in 1..Len(files) |->
            IF files[k].name = name THEN [name |-> name, doc |-> doc]
            ELSE files[k]]
    ELSE Append(files, [name |-> name, doc |-> doc])

Halt(e) == pc' = "halted" /\ err' = e

\* lines 185-188: the English page gives the canonical slugs
MigrateReadEnglish ==
    /\ script = "migrate" /\ pc = "start"
    /\ IF ~html["en"].exists
       THEN Halt("ENOENT") /\ UNCHANGED enSlugs
       ELSE LET enFeatured == extractFeatured(html["en"].page, "en")
                enCards == extractCards(html["en"].page, "en")
            IN  IF enFeatured = NoMatch
                THEN Halt("TypeError") /\ UNCHANGED enSlugs
                ELSE /\ enSlugs' = <<enFeatured[1].slug>> \o
                                   [k \in 1..Len(enCards) |-> enCards[k].slug]
                     /\ pc' = "read"
                     /\ UNCHANGED err
    /\ UNCHANGED <<fnVars, script, html, content, templates, outPages,
                   langIdx, featured, cards, cardIdx, log>>

\* Mutant: a language whose page is missing is skipped, the loop goes on.
MigrateReadLang_SkipMissing ==
    /\ script = "migrate" /\ pc = "read"
    /\ IF ~html[Langs[langIdx]].exists
       THEN /\ pc' = IF langIdx = Len(Langs) THEN "done" ELSE "read"
            /\ langIdx' = IF langIdx = Len(Langs) THEN langIdx ELSE langIdx + 1
            /\ UNCHANGED <<featured, cards, cardIdx, err>>
       ELSE /\ featured' = extractFeatured(html[Langs[langIdx]].page,
                                           Langs[langIdx])
            /\ cards' = extractCards(html[Langs[langIdx]].page, Langs[langIdx])
            /\ cardIdx' = 0
            /\ pc' = "featured"
            /\ UNCHANGED <<err, langIdx>>
    /\ UNCHANGED <<fnVars, script, html, content, templates, outPages,
                   enSlugs, log>>

\* lines 190-195: read and extract the page of the loop's language
MigrateReadLang ==
    /\ script = "migrate" /\ pc = "read"
    /\ IF ~html[Langs[langIdx]].exists
       THEN Halt("ENOENT") /\ UNCHANGED <<featured, cards, cardIdx>>
       ELSE /\ featured' = extractFeatured(html[Langs[langIdx]].page,
                                           Langs[langIdx])
            /\ cards' = extractCards(html[Langs[langIdx]].page, Langs[langIdx])
            /\ cardIdx' = 0
            /\ pc' = "featured"
            /\ UNCHANGED err
    /\ UNCHANGED <<fnVars, script, html, content, templates, outPages,
                   langIdx, enSlugs, log>>

\* lines 198-204: the featured post gets the first canonical slug
MigrateWriteFeatured ==
    /\ script = "migrate" /\ pc = "featured"
    /\ LET lang == Langs[langIdx]
       IN  IF featured # NoMatch
           THEN LET post == [featured[1] EXCEPT !.slug = enSlugs[1]]
                IN  /\ featured' = Match(post)
                    /\ content' = [content EXCEPT ![lang].files =
                                     WriteFile(@, post.slug, post)]
                    /\ log' = Append(log, [lang |-> lang, kind |-> "featured",
                                           slug |-> post.slug])
           ELSE UNCHANGED <<featured, content, log>>
    /\ pc' = "cards"
    /\ UNCHANGED <<fnVars, script, html, templates, outPages, langIdx,
                   enSlugs, cards, cardIdx, err>>

\* enSlugs[i + 1] || cards[i].slug: undefined and '' are both falsy
CanonicalOrOwn(slugs, i, own) ==
    IF i + 2 <= Len(slugs) /\ slugs[i + 2] # <<>> THEN slugs[i + 2] ELSE own

\* lines 206-212, one round of the card loop
MigrateWriteCard ==
    /\ script = "migrate" /\ pc = "cards" /\ cardIdx < Len(cards)
    /\ LET lang == Langs[langIdx]
           post == [cards[cardIdx + 1] EXCEPT !.slug =
                      CanonicalOrOwn(enSlugs, cardIdx, @)]
       IN  /\ cards' = [cards EXCEPT ![cardIdx + 1] = post]
           /\ content' = [content EXCEPT ![lang].files =
                            WriteFile(@, post.slug, post)]
           /\ log' = Append(log, [lang |-> lang, kind |-> "card",
                                  slug |-> post.slug])
    /\ cardIdx' = cardIdx + 1
    /\ UNCHANGED <<fnVars, script, html, templates, outPages, pc, langIdx,
                   enSlugs, featured, err>>

\* lines 206 and 190: the card loop ends, the language loop goes on or ends
MigrateNextLang ==
    /\ script = "migrate" /\ pc = "cards" /\ cardIdx = Len(cards)
    /\ IF langIdx = Len(Langs)
       THEN pc' = "done" /\ UNCHANGED langIdx
       ELSE pc' = "read" /\ langIdx' = langIdx + 1
    /\ UNCHANGED <<fnVars, script, html, content, templates, outPages,
                   enSlugs, featured, cards, cardIdx, log, err>>

----------------------------------------------------------------------------
(* The build script, src/unnamed/part_000:172-230                          *)
(* A document is [name, date, featured]: date is the time value of         *)
(* new Date(date), in days.                                                *)

\* Mutant: a post is put before the posts of its own date (an unstable sort).
RECURSIVE InsertByDate_BeforeEqual(_, _)
InsertByDate_BeforeEqual(sorted, x) ==
    IF sorted = <<>> THEN <<x>>
    ELSE IF Head(sorted).date - x.date > 0
         THEN <<Head(sorted)>> \o InsertByDate_BeforeEqual(Tail(sorted), x)
         ELSE <<x>> \o sorted

\* x goes after every post a with compare(a, x) = x.date - a.date <= 0
RECURSIVE InsertByDate(_, _)
InsertByDate(sorted, x) ==
    IF sorted = <<>> THEN <<x>>
    ELSE IF x.date - Head(sorted).date <= 0
         THEN <<Head(sorted)>> \o InsertByDate(Tail(sorted), x)
         ELSE <<x>> \o sorted

\* posts.sort((a, b) => new Date(b.date) - new Date(a.date)): Array.sort
\* is stable
RECURSIVE SortByDateDesc(_)
SortByDateDesc(posts) ==
    IF posts = <<>> THEN <<>>
    ELSE InsertByDate(SortByDateDesc(SubSeq(posts, 1, Len(posts) - 1)),
                      posts[Len(posts)])

\* posts.findIndex(p => p.featured === true), -1 replaced by 0; 0-based
FeaturedIdx(posts) ==
    IF \E k \in 1..Len(posts) : posts[k].featured
    THEN (CHOOSE k \in 1..Len(posts) :
             /\ posts[k].featured
             /\ \A j \in 1..(k - 1) : ~posts[j].featured) - 1
    ELSE 0

\* posts.filter((_, i) => i !== featuredIdx)
RemoveAt(posts, idx) ==
    SubSeq(posts, 1, idx) \o SubSeq(posts, idx + 2, Len(posts))

Resources(lang) ==
    IF script = "migrate" THEN html[lang].exists
    ELSE content[lang].exists /\ templates[lang].top /\ templates[lang].bottom

\* lines 176-217: read, sort, select and render the posts of the language
BuildAssemble ==
    /\ script = "build" /\ pc = "read"
    /\ LET lang == Langs[langIdx]
       IN  IF ~content[lang].exists
           THEN Halt("ENOENT") /\ UNCHANGED <<featured, cards>>
           ELSE LET posts == SortByDateDesc(
                               [k \in 1..Len(content[lang].files) |->
                                   content[lang].files[k].doc])
                IN  IF posts = <<>>
                    THEN Halt("TypeError") /\ UNCHANGED <<featured, cards>>
                    ELSE /\ featured' = Match(posts[FeaturedIdx(posts) + 1])
                         /\ cards' = RemoveAt(posts, FeaturedIdx(posts))
                         /\ pc' = "write"
                         /\ UNCHANGED err
    /\ UNCHANGED <<fnVars, script, html, content, templates, outPages,
                   langIdx, enSlugs, cardIdx, log>>

\* lines 219-228: read the templates, write the page, go to the next language
BuildWritePage ==
    /\ script = "build" /\ pc = "write"
    /\ LET lang == Langs[langIdx]
       IN  IF ~(templates[lang].top /\ templates[lang].bottom)
           THEN Halt("ENOENT") /\ UNCHANGED <<outPages, log, langIdx>>
           ELSE /\ outPages' = [outPages EXCEPT ![lang] =
                                  [written |-> TRUE, featured |-> featured,
                                   cards |-> cards]]
                /\ log' = Append(log, [lang |-> lang, kind |-> "page",
                                       slug |-> <<>>])
                /\ IF langIdx = Len(Langs)
                   THEN pc' = "done" /\ UNCHANGED langIdx
                   ELSE pc' = "read" /\ langIdx' = langIdx + 1
                /\ UNCHANGED err
    /\ UNCHANGED <<fnVars, script, html, content, templates, enSlugs,
                   featured, cards, cardIdx>>

----------------------------------------------------------------------------
(* Pure-function runs share the variables input/output/output2/stage.      *)

IdleScript ==
    /\ script = "none" /\ html = <<>> /\ content = <<>> /\ templates = <<>>
    /\ outPages = <<>> /\ pc = "idle" /\ langIdx = 0 /\ enSlugs = <<>>
    /\ featured = NoMatch /\ cards = <<>> /\ cardIdx = 0 /\ log = <<>>
    /\ err = "none"

IdleFn == input = <<>> /\ output = <<>> /\ output2 = <<>> /\ stage = "idle"

\* Bounds of the slugify inputs: a run of PadChar of length 0 or
\* SlugLimit-PadSlack..SlugLimit, followed by any tail of at most MaxTail.
MaxTail == 3
PadSlack == 2
SlugChars == {"a", "B", " ", "-", "!"}

SlugInputs ==
    {Rep("a", n) \o t :
        n \in {0} \cup ((SlugLimit - PadSlack)..SlugLimit),
        t \in SeqsUpTo(SlugChars, MaxTail)}

InitSlugify ==
    /\ input \in SlugInputs
    /\ output = <<>> /\ output2 = <<>> /\ stage = "in"
    /\ IdleScript

ApplySlugify ==
    /\ stage = "in"
    /\ output' = slugify(input)
    /\ stage' = "once"
    /\ UNCHANGED <<input, output2, scriptVars>>

ReapplySlugify ==
    /\ stage = "once"
    /\ output2' = slugify(output)
    /\ stage' = "twice"
    /\ UNCHANGED <<input, output, scriptVars>>

NextSlugify == ApplySlugify \/ ReapplySlugify

SpecSlugify == InitSlugify /\ [][NextSlugify]_vars

\* C3: every slug produced by slugify is non-empty, lowercase, at most 60
\* characters long, has no whitespace and no run of hyphens, and neither
\* begins nor ends with a hyphen.
WellFormedSlug(s) ==
    /\ s # <<>>
    /\ Len(s) <= SlugLimit
    /\ \A k \in 1..Len(s) : s[k] \notin WhiteSpace /\ s[k] \notin DOMAIN LowerOf
    /\ \A k \in 1..(Len(s) - 1) : ~(s[k] = "-" /\ s[k + 1] = "-")
    /\ s[1] # "-" /\ s[Len(s)] # "-"

C3_SlugWellFormed == stage \in {"once", "twice"} => WellFormedSlug(output)

\* C4: slugify is idempotent, slugify(slugify(x)) = slugify(x).
C4_SlugifyIdempotent == stage = "twice" => output2 = output

----------------------------------------------------------------------------
(* Runs of decodeEntities                                                  *)

\* Bound of the decode inputs: a text is at most MaxPieces pieces, each a
\* reference, the head or the tail of one, or a plain character.
MaxPieces == 3

DecodePieces ==
    { <<"&">>, <<"amp", ";">>, <<"lt", ";">>, <<"mdash", ";">>,
      <<"#", "6", "5", ";">>,
      <<"&", "amp", ";">>, <<"&", "lt", ";">>, <<"&", "mdash", ";">>,
      <<"&", "#", "3", "8", ";">>, <<"&", "#", "3", "5", ";">>,
      <<"&", "#", "1", "5", "0", "4", ";">>, <<"x">> }

DecodeInputs == {Flatten(ps) : ps \in SeqsUpTo(DecodePieces, MaxPieces)}

InitDecode ==
    /\ input \in DecodeInputs
    /\ output = <<>> /\ output2 = <<>> /\ stage = "in"
    /\ IdleScript

ApplyDecode ==
    /\ stage = "in"
    /\ output' = decodeEntities(input)
    /\ stage' = "once"
    /\ UNCHANGED <<input, output2, scriptVars>>

ReapplyDecode ==
    /\ stage = "once"
    /\ output2' = decodeEntities(output)
    /\ stage' = "twice"
    /\ UNCHANGED <<input, output, scriptVars>>

NextDecode == ApplyDecode \/ ReapplyDecode

SpecDecode == InitDecode /\ [][NextDecode]_vars

\* C10 as stated: entity decoding is idempotent, decode(decode(x)) =
\* decode(x) for every text x.
C10_DecodeIdempotent == stage = "twice" => output2 = output

\* x holds a numeric reference &#<digits>; whose code unit is ASCII
HasAsciiNumericRef(x) ==
    \E p \in 1..Len(x) : \E d \in 1..Len(x) :
        /\ p + d + 2 <= Len(x)
        /\ x[p] = "&" /\ x[p + 1] = "#" /\ x[p + d + 2] = ";"
        /\ \A k \in (p + 2)..(p + d + 1) : x[k] \in Digits
        /\ ParseInt(SubSeq(x, p + 2, p + d + 1)) % 65536 < 128

DecodesNoReferenceSyntax(x) ==
    /\ ~Contains(x, <<"&", "amp", ";">>)
    /\ ~HasAsciiNumericRef(x)

\* C10 as amended: decode(decode(x)) = decode(x) for every text x that holds
\* no encoded ampersand (&amp;) and no numeric reference to an ASCII
\* character.
C10_DecodeIdempotentNoAmp ==
    (stage = "twice" /\ DecodesNoReferenceSyntax(input)) => output2 = output

\* C10 witness: a text with a named and a non-ASCII numeric reference and no
\* encoded ampersand has been decoded twice, the first pass changing it.
C10_Witness ==
    /\ stage = "twice"
    /\ DecodesNoReferenceSyntax(input)
    /\ Contains(input, <<"&", "lt", ";">>)
    /\ Contains(input, <<"&", "#", "1", "5", "0", "4", ";">>)
    /\ output # input
    /\ output2 = output

----------------------------------------------------------------------------
(* Runs of the date grammars                                               *)

\* Bound of the date inputs: three tokens joined by two separators, then
\* at most MaxExtraTokens further tokens.
MaxExtraTokens == 1

DateTokens ==
    { <<"March">>, <<"mars">>, <<"MARS">>, <<"merts">>, <<"x">>,
      <<"5">>, <<"2", "3">>, <<>> }

YearTokens == { <<"2", "0", "2", "5">>, <<"9", "9">> }

DateSeparators ==
    { <<" ">>, <<" ", " ">>, <<"\t">>, <<",", " ">>, <<",">>,
      <<"&", "nbsp", ";">> }

DateTails ==
    {Flatten([k \in 1..n |-> <<" ", "x">>]) : n \in 0..MaxExtraTokens}
    \cup { <<" ">>, <<",">> }

DateInputs ==
    {[lang |-> l, text |-> a \o s1 \o b \o s2 \o c \o t] :
        l \in {"en", "fr", "he"}, a \in DateTokens, b \in DateTokens,
        c \in YearTokens, s1 \in DateSeparators, s2 \in DateSeparators,
        t \in DateTails}

InitDate ==
    /\ input \in DateInputs
    /\ output = <<>> /\ output2 = <<>> /\ stage = "in"
    /\ IdleScript

ParseDate ==
    /\ stage = "in"
    /\ output' = PostDate(input.text, input.lang)
    /\ stage' = "once"
    /\ UNCHANGED <<input, output2, scriptVars>>

NextDate == ParseDate

SpecDate == InitDate /\ [][NextDate]_vars

\* The date a grammar is to give for the tokens it names day, month, year.
MonthTable(lang) ==
    IF lang = "en" THEN enMonths ELSE IF lang = "fr" THEN frMonths ELSE heMonths

ZeroPadded(day) ==
    IF day = <<>> THEN <<"0", "0">>
    ELSE IF Len(day) = 1 /\ day[1] \notin Words THEN <<"0">> \o day ELSE day

MonthEntryOr01(lang, tok) ==
    LET name == IF lang = "he" THEN tok ELSE TokenToLower(tok)
    IN  IF Len(name) = 1 /\ name[1] \in DOMAIN MonthTable(lang)
        THEN MonthTable(lang)[name[1]] ELSE <<"0", "1">>

GrammarDate(lang, t1, t2, t3) ==
    IF lang = "en"
    THEN t3 \o <<"-">> \o MonthEntryOr01(lang, t1) \o <<"-">> \o ZeroPadded(t2)
    ELSE t3 \o <<"-">> \o MonthEntryOr01(lang, t2) \o <<"-">> \o ZeroPadded(t1)

NoneIn(t, lo, hi, X) == \A k \in lo..hi : t[k] \notin X

\* t is exactly three non-empty tokens a, b, c separated by two runs of
\* whitespace, and r is the grammar's date of them
ThreeTokensGive(lang, t, r) ==
    \A i1 \in 2..Len(t) : \A j1 \in i1..Len(t) :
    \A i2 \in (j1 + 2)..Len(t) : \A j2 \in i2..(Len(t) - 1) :
        ( /\ NoneIn(t, 1, i1 - 1, WhiteSpace)
          /\ \A k \in i1..j1 : t[k] \in WhiteSpace
          /\ NoneIn(t, j1 + 1, i2 - 1, WhiteSpace)
          /\ \A k \in i2..j2 : t[k] \in WhiteSpace
          /\ NoneIn(t, j2 + 1, Len(t), WhiteSpace) )
        => r = GrammarDate(lang, SubSeq(t, 1, i1 - 1),
                           SubSeq(t, j1 + 1, i2 - 1),
                           SubSeq(t, j2 + 1, Len(t)))

TwoSeparatorsGive(lang, t, r) ==
    \A i \in 1..Len(t) : \A j \in (i + 1)..Len(t) :
        ( /\ t[i] = " " /\ t[j] = " "
          /\ \A k \in 1..Len(t) : k \notin {i, j} => t[k] # " " )
        => r = GrammarDate(lang, SubSeq(t, 1, i - 1), SubSeq(t, i + 1, j - 1),
                           SubSeq(t, j + 1, Len(t)))

\* t in the English grammar: parts between whitespace runs, the first or
\* the last part possibly empty
ThreeRunPartsGive(t, r) ==
    \A i1 \in 1..Len(t) : \A j1 \in i1..Len(t) :
    \A i2 \in (j1 + 2)..Len(t) : \A j2 \in i2..Len(t) :
        ( /\ NoneIn(t, 1, i1 - 1, WhiteSpace)
          /\ \A k \in i1..j1 : t[k] \in WhiteSpace
          /\ NoneIn(t, j1 + 1, i2 - 1, WhiteSpace)
          /\ \A k \in i2..j2 : t[k] \in WhiteSpace
          /\ NoneIn(t, j2 + 1, Len(t), WhiteSpace) )
        => r = GrammarDate("en", SubSeq(t, 1, i1 - 1),
                           SubSeq(t, j1 + 1, i2 - 1),
                           SubSeq(t, j2 + 1, Len(t)))

----------------------------------------------------------------------------
(* Render a post, then extract it again                                    *)

\* Bound of the round-trip inputs: the card index runs over 0..MaxCardIndex.
MaxCardIndex == 1

\* Posts as the data model has them (a non-empty trimmed title) and with an
\* image and an alt text: for an empty image or alt text the generators
\* emit a placeholder URL or the title (part_000:105-106, 146-147).
RtTitles == { <<"a">>, <<"a", "&", "b">>, <<"&", "lt", ";">>, <<"\"">> }
RtExcerpts == { <<>>, <<"x">>, <<"<">> }
RtCategories == { <<"economy">>, <<"podcasts">>, <<>> }
RtImages == { <<"img/a.jpg">>, <<"img/b.jpg">> }
RtAlts == { <<"c">>, <<"c", ">", "d">> }
RtDates == { <<"2", "0", "2", "5", "-", "0", "1", "-", "0", "5">>,
             <<"2", "0", "2", "5", "-", "0", "3", "-", "2", "3">> }

RtInputs ==
    {[lang |-> l, index |-> ix,
      post |-> [title |-> t, slug |-> <<"a">>, date |-> d, category |-> c,
                excerpt |-> e, image |-> im, image_alt |-> al,
                featured |-> f]] :
        l \in {"en", "fr", "he"}, ix \in 0..MaxCardIndex, t \in RtTitles,
        d \in RtDates, c \in RtCategories, e \in RtExcerpts, im \in RtImages,
        al \in RtAlts, f \in BOOLEAN}

InitRoundTrip ==
    /\ input \in {x \in RtInputs : x.post.featured => x.index = 0}
    /\ output = <<>> /\ output2 = <<>> /\ stage = "in"
    /\ IdleScript

Render ==
    /\ stage = "in"
    /\ output' = IF input.post.featured
                 THEN generateFeaturedPost(input.post, input.lang)
                 ELSE generateBlogCard(input.post, input.index, input.lang)
    /\ stage' = "once"
    /\ UNCHANGED <<input, output2, scriptVars>>

Extract ==
    /\ stage = "once"
    /\ output2' = parsePost(MatchFragment(output), input.lang,
                            output.role = "featured")
    /\ stage' = "twice"
    /\ UNCHANGED <<input, output, scriptVars>>

NextRoundTrip == Render \/ Extract

SpecRoundTrip == InitRoundTrip /\ [][NextRoundTrip]_vars

\* C7: rendering a Post to HTML and extracting it again gives the same
\* title, category, image, image_alt and excerpt and the original ISO date,
\* for every locale and both roles.
C7_RoundTrip ==
    stage = "twice" =>
        /\ output2.title = input.post.title
        /\ output2.category = input.post.category
        /\ output2.image = input.post.image
        /\ output2.image_alt = input.post.image_alt
        /\ output2.excerpt = input.post.excerpt
        /\ output2.date = input.post.date

----------------------------------------------------------------------------
(* Runs of the two scripts                                                 *)

\* Bounds: a legacy page has at most MaxCards cards; a content directory
\* has at most MaxPosts documents, dated 1..MaxDate; at most MaxMissing of
\* the build's directories and templates are missing.
MaxCards == 2
MaxPosts == 3
MaxDate == 2
MaxMissing == 1

LegacyDate(lang) ==
    IF lang = "en" THEN <<"March", " ", "5", ",", " ", "2", "0", "2", "5">>
    ELSE IF lang = "fr" THEN <<"5", " ", "mars", " ", "2", "0", "2", "5">>
    ELSE <<"5", " ", "merts", " ", "2", "0", "2", "5">>

\* The texts a legacy fragment varies in: the title of an English post, the
\* alt text of a French or Hebrew one (the source of its own slug).
LegacyTexts(lang) ==
    IF lang = "en" THEN { <<"a">>, <<"!">> }
    ELSE IF lang = "fr" THEN { <<"b">>, <<"!">> }
    ELSE { <<"c">> }

LegacyBlock(lang, text) ==
    [ dataCat |-> Match(<<"economy">>),
      img |-> Match([src |-> <<"img/a.jpg">>,
                     alt |-> IF lang = "en" THEN <<"c">> ELSE text]),
      dateEl |-> Match(LegacyDate(lang)),
      titleEl |-> Match(IF lang = "en" THEN text ELSE <<"t">>),
      excerptEl |-> Match(<<"x">>) ]

LegacyBlocks(lang) == {LegacyBlock(lang, t) : t \in LegacyTexts(lang)}

LegacyPages(lang) ==
    {[exists |-> TRUE, page |-> [featuredBlock |-> f, grid |-> g]] :
        f \in {NoMatch} \cup {Match(b) : b \in LegacyBlocks(lang)},
        g \in SeqsUpTo(LegacyBlocks(lang), MaxCards)}
    \cup {[exists |-> FALSE,
           page |-> [featuredBlock |-> NoMatch, grid |-> <<>>]]}

NoPage == [written |-> FALSE, featured |-> NoMatch, cards |-> <<>>]

InitMigrate ==
    /\ script = "migrate"
    /\ html \in [LangSet -> UNION {LegacyPages(l) : l \in LangSet}]
    /\ \A l \in LangSet : html[l] \in LegacyPages(l)
    /\ content = [l \in LangSet |-> [exists |-> TRUE, files |-> <<>>]]
    /\ templates = [l \in LangSet |-> [top |-> TRUE, bottom |-> TRUE]]
    /\ outPages = [l \in LangSet |-> NoPage]

\* The documents of a directory, in the order readdirSync lists them.
Documents ==
    {[k \in 1..n |-> [name |-> k, date |-> d[k], featured |-> f[k]]] :
        n \in 0..MaxPosts, d \in [1..MaxPosts -> 1..MaxDate],
        f \in [1..MaxPosts -> BOOLEAN]}

BuildResources == LangSet \X {"dir", "top", "bottom"}

InitBuild ==
    /\ script = "build"
    /\ html = [l \in LangSet |->
                 [exists |-> FALSE,
                  page |-> [featuredBlock |-> NoMatch, grid |-> <<>>]]]
    /\ \E docs \in Documents : \E missing \in SUBSET BuildResources :
        /\ Cardinality(missing) <= MaxMissing
        /\ content = [l \in LangSet |->
                        [exists |-> <<l, "dir">> \notin missing,
                         files |-> IF <<l, "dir">> \in missing THEN <<>>
                                   ELSE [k \in 1..Len(docs) |->
                                           [name |-> docs[k].name,
                                            doc |-> docs[k]]]]]
        /\ templates = [l \in LangSet |->
                          [top |-> <<l, "top">> \notin missing,
                           bottom |-> <<l, "bottom">> \notin missing]]
    /\ outPages = [l \in LangSet |-> NoPage]

Init ==
    /\ IdleFn
    /\ InitMigrate \/ InitBuild
    /\ pc = "start" /\ langIdx = 1 /\ enSlugs = <<>>
    /\ featured = NoMatch /\ cards = <<>> /\ cardIdx = 0
    /\ log = <<>> /\ err = "none"

\* line 176: the build has no step before its loop
BuildStart ==
    /\ script = "build" /\ pc = "start"
    /\ pc' = "read"
    /\ UNCHANGED <<fnVars, script, html, content, templates, outPages,
                   langIdx, enSlugs, featured, cards, cardIdx, log, err>>

Next ==
    \/ MigrateReadEnglish
    \/ MigrateReadLang
    \/ MigrateWriteFeatured
    \/ MigrateWriteCard
    \/ MigrateNextLang
    \/ BuildStart
    \/ BuildAssemble
    \/ BuildWritePage

Spec == Init /\ [][Next]_vars

----------------------------------------------------------------------------
(* Claims about the scripts                                                *)

\* the console lines of one language, and those of one kind
LogOfLang(l) == SelectSeq(log, LAMBDA e : e.lang = l)
LogOf(l, kind) == SelectSeq(log, LAMBDA e : e.lang = l /\ e.kind = kind)

MigrationDone == script = "migrate" /\ pc = "done"

\* C1: after an extraction run, in every language the post at position i
\* (featured block 0, k-th card k) carries the English slug at position i
\* when the English list has one, and its own extracted slug otherwise.
C1_PositionalSlugs ==
    MigrationDone =>
        \A l \in LangSet :
            LET own == extractCards(html[l].page, l)
                f == LogOf(l, "featured")
                c == LogOf(l, "card")
            IN  /\ \A k \in 1..Len(f) : f[k].slug = enSlugs[1]
                /\ Len(c) = Len(own)
                /\ \A k \in 1..Len(c) :
                       IF k + 1 <= Len(enSlugs)
                       THEN c[k].slug = enSlugs[k + 1]
                       ELSE c[k].slug = own[k].slug

\* C2: within one language, the slugs of the posts written by an
\* extraction run are pairwise distinct, so no document written during the
\* run is overwritten by a later post of the language.
C2_SlugsDistinct ==
    MigrationDone =>
        \A l \in LangSet :
            LET w == LogOfLang(l)
            IN  /\ \A i \in 1..Len(w) : \A j \in (i + 1)..Len(w) :
                       w[i].slug # w[j].slug
                /\ Len(content[l].files) = Len(w)

\* C5: a page without a featured block is not fatal for extraction: with
\* every source page present the run throws nothing, and when it ends every
\* page's cards have been written, the English page included.
C5_NoFeaturedNotFatal ==
    (script = "migrate" /\ \A l \in LangSet : html[l].exists) =>
        /\ err = "none"
        /\ pc = "done" =>
               \A l \in LangSet :
                   Len(LogOf(l, "card")) = Len(html[l].page.grid)

\* C6: for a non-empty list of posts, the page has the posts by date
\* descending, equal dates in their original order; the featured post is
\* the first in that order that is flagged, or the first of all when none
\* is flagged; every other post is once in the grid, in that order.
PageAssembled(P, page) ==
    LET n == Len(P)
        Before(i, j) == \/ P[i].date > P[j].date
                        \/ P[i].date = P[j].date /\ i < j
        Flagged == {k \in 1..n : P[k].featured}
        Pool == IF Flagged = {} THEN 1..n ELSE Flagged
        Pos(doc) == CHOOSE k \in 1..n : P[k] = doc
    IN  /\ n > 0
        /\ page.featured # NoMatch
        /\ \E fi \in Pool :
              /\ page.featured[1] = P[fi]
              /\ \A j \in Pool \ {fi} : Before(fi, j)
              /\ Len(page.cards) = n - 1
              /\ \A j \in (1..n) \ {fi} :
                     Cardinality({k \in 1..(n - 1) : page.cards[k] = P[j]}) = 1
              /\ \A k \in 1..(n - 1) : page.cards[k] # P[fi]
              /\ \A k1 \in 1..(n - 1) : \A k2 \in (k1 + 1)..(n - 1) :
                     Before(Pos(page.cards[k1]), Pos(page.cards[k2]))

C6_PageAssembly ==
    \A l \in LangSet :
        (script = "build" /\ outPages[l].written) =>
            PageAssembled([k \in 1..Len(content[l].files) |->
                              content[l].files[k].doc], outPages[l])

\* C6 witness: three unflagged posts dated 2, 1, 2 have been assembled: the
\* first is featured, the third precedes the second in the grid.
C6_Witness ==
    /\ script = "build" /\ outPages["en"].written
    /\ Len(content["en"].files) = 3
    /\ [k \in 1..3 |-> content["en"].files[k].doc.date] = <<2, 1, 2>>
    /\ \A k \in 1..3 : ~content["en"].files[k].doc.featured
    /\ outPages["en"].featured = Match(content["en"].files[1].doc)
    /\ outPages["en"].cards = <<content["en"].files[3].doc,
                                content["en"].files[2].doc>>

Unwritten(l) ==
    IF script = "migrate"
    THEN content[l].files = <<>> /\ LogOfLang(l) = <<>>
    ELSE ~outPages[l].written /\ LogOfLang(l) = <<>>

Complete(l) ==
    IF script = "migrate"
    THEN /\ Len(LogOf(l, "card")) = Len(html[l].page.grid)
         /\ Len(LogOf(l, "featured")) =
                IF html[l].page.featuredBlock = NoMatch THEN 0 ELSE 1
    ELSE outPages[l].written

\* C9: languages are processed in the order en, fr, he and a missing
\* resource of language L (its source page; its content directory or a
\* template) is fatal: nothing is ever written for L or a later language,
\* the run that stops on it has written the earlier languages in full, no
\* run with a missing resource completes, what is written for the earlier
\* languages is not touched again, and a halted run takes no further step.
C9_State ==
    /\ \A k \in 1..Len(Langs) :
           ~Resources(Langs[k]) =>
               \A j \in k..Len(Langs) : Unwritten(Langs[j])
    /\ (pc = "halted" /\ err = "ENOENT") =>
           /\ ~Resources(Langs[langIdx])
           /\ \A j \in 1..(langIdx - 1) :
                  Resources(Langs[j]) /\ Complete(Langs[j])
    /\ pc = "done" => \A l \in LangSet : Resources(l)

C9_Step ==
    /\ pc # "halted"
    /\ \A j \in 1..(langIdx - 1) :
           /\ content'[Langs[j]] = content[Langs[j]]
           /\ outPages'[Langs[j]] = outPages[Langs[j]]

C9_MissingResourceFatal == [](C9_State) /\ [][C9_Step]_vars

\* C9 witness: the build has stopped on a missing French template with the
\* English page written.
C9_Witness ==
    /\ script = "build" /\ pc = "halted" /\ err = "ENOENT" /\ langIdx = 2
    /\ content["fr"].exists /\ ~templates["fr"].bottom
    /\ outPages["en"].written /\ ~outPages["fr"].written

=============================================================================
